---------------------------- MODULE Spec2Model ----------------------------
(***************************************************************************)
(* A model of src/metrics.rs of rust-prometheus: name composition          *)
(* (build_fq_name), the ordering of label pairs, the Labels arrays of      *)
(* cardinality 0..4, the Opts builder and the registration methods of the  *)
(* Collector trait.                                                        *)
(*                                                                         *)
(* A Rust string is a sequence of bytes.  A HashMap<String, String> is a   *)
(* function whose domain is the set of its keys.                           *)
(***************************************************************************)
EXTENDS Integers, Sequences, FiniteSets, TLC

VARIABLES
    fq_in,             \* the arguments of a build_fq_name call
    fq_out,            \* what the call returned
    cmp_in,            \* the two label pairs of a comparison
    cmp_out,           \* what cmp / partial_cmp returned
    opts,              \* the Opts record of a builder chain
    L,                 \* the cardinality of the chain's label type L
    hist,              \* the arguments most recently supplied to the chain
    fqlog,             \* fq_name() results since the last builder operation
    last,              \* the chain's last operation, its arguments and result
    registry,          \* the descriptors held by the registry passed by reference
    default_registry,  \* the descriptors held by the process-wide registry
    rlast,             \* the last Collector method called, with its outcome
    rprev              \* the Collector method called before it

vars == <<fq_in, fq_out, cmp_in, cmp_out, opts, L, hist, fqlog, last,
          registry, default_registry, rlast, rprev>>

---------------------------------------------------------------------------
(* Bytes and strings *)

Underscore == 95
Space == 32
LetterA == 97
LetterB == 98
LetterC == 99
LetterK == 107
Digit0 == 48
Digit1 == 49

\* the longest string drawn as an argument of build_fq_name and cmp
MaxLen == 2

\* the number of fq_name() calls followed between two builder operations
MaxFqCalls == 2

EmptyStr == <<>>

RECURSIVE StrsOfLen(_, _)
StrsOfLen(alphabet, n) ==
    IF n = 0 THEN {EmptyStr}
    ELSE {Append(s, b) : s \in StrsOfLen(alphabet, n - 1), b \in alphabet}

Strs(alphabet, n) == UNION {StrsOfLen(alphabet, k) : k \in 0..n}

is_empty(s) == Len(s) = 0

---------------------------------------------------------------------------
(* build_fq_name *)

Format2(a, b) == a \o <<Underscore>> \o b

Format3(a, b, c) == a \o <<Underscore>> \o b \o <<Underscore>> \o c

build_fq_name_NoNameCheck(namespace, subsystem, name) ==
    IF ~is_empty(namespace) /\ ~is_empty(subsystem)
    THEN Format3(namespace, subsystem, name)
    ELSE IF ~is_empty(namespace) THEN Format2(namespace, name)
    ELSE IF ~is_empty(subsystem) THEN Format2(subsystem, name)
    ELSE name

build_fq_name(namespace, subsystem, name) ==
    IF is_empty(name) THEN EmptyStr
    ELSE IF ~is_empty(namespace) /\ ~is_empty(subsystem)
    THEN Format3(namespace, subsystem, name)
    ELSE IF ~is_empty(namespace) THEN Format2(namespace, name)
    ELSE IF ~is_empty(subsystem) THEN Format2(subsystem, name)
    ELSE name

---------------------------------------------------------------------------
(* impl Ord / PartialOrd for LabelPair *)

\* str::cmp: bytes compared from the left, a proper prefix is Less
RECURSIVE StrCmp(_, _)
StrCmp(a, b) ==
    IF is_empty(a) /\ is_empty(b) THEN "Equal"
    ELSE IF is_empty(a) THEN "Less"
    ELSE IF is_empty(b) THEN "Greater"
    ELSE IF Head(a) < Head(b) THEN "Less"
    ELSE IF Head(a) > Head(b) THEN "Greater"
    ELSE StrCmp(Tail(a), Tail(b))

new_label_pair(name, value) == [name |-> name, value |-> value]

get_name(pair) == pair.name

get_value(pair) == pair.value

LabelPair_cmp_ByValue(self, other) == StrCmp(get_value(self), get_value(other))

LabelPair_cmp(self, other) == StrCmp(get_name(self), get_name(other))

Some(x) == [some |-> TRUE, val |-> x]

None == [some |-> FALSE, val |-> "None"]

LabelPair_partial_cmp(self, other) == Some(LabelPair_cmp(self, other))

---------------------------------------------------------------------------
(* impl Labels for [T; 0] .. [T; 4] *)

\* an item of type T: AsRef<str> holds, or points to, the bytes of a name
Item(s) == [str |-> s]

as_ref(item) == item.str

\* str::to_owned: a String holding a copy of the bytes
str_to_owned(s) == [i \in 1..Len(s) |-> s[i]]

to_owned_0(self) == <<>>

to_owned_1(self) == <<str_to_owned(as_ref(self[1]))>>

to_owned_2(self) ==
    <<str_to_owned(as_ref(self[1])), str_to_owned(as_ref(self[2]))>>

to_owned_3(self) ==
    <<str_to_owned(as_ref(self[1])), str_to_owned(as_ref(self[2])),
      str_to_owned(as_ref(self[3]))>>

to_owned_4_Swapped(self) ==
    <<str_to_owned(as_ref(self[1])), str_to_owned(as_ref(self[2])),
      str_to_owned(as_ref(self[4])), str_to_owned(as_ref(self[3]))>>

to_owned_4(self) ==
    <<str_to_owned(as_ref(self[1])), str_to_owned(as_ref(self[2])),
      str_to_owned(as_ref(self[3])), str_to_owned(as_ref(self[4]))>>

\* the impl the compiler selects for an array type [T; N]
Labels_to_owned(self) ==
    CASE Len(self) = 0 -> to_owned_0(self)
      [] Len(self) = 1 -> to_owned_1(self)
      [] Len(self) = 2 -> to_owned_2(self)
      [] Len(self) = 3 -> to_owned_3(self)
      [] Len(self) = 4 -> to_owned_4(self)

\* the cardinalities Labels is implemented for
Cardinalities == {0, 1, 2, 3, 4}

---------------------------------------------------------------------------
(* Opts *)

HashMap_new == [k \in {} |-> EmptyStr]

HashMap_insert_IfAbsent(m, k, v) ==
    [x \in (DOMAIN m) \cup {k} |-> IF x \in DOMAIN m THEN m[x] ELSE v]

HashMap_insert(m, k, v) ==
    [x \in (DOMAIN m) \cup {k} |-> IF x = k THEN v ELSE m[x]]

Opts_new_with_label_Swapped(name, help, variable_labels) ==
    [namespace |-> EmptyStr,
     subsystem |-> EmptyStr,
     name |-> help,
     help |-> name,
     const_labels |-> HashMap_new,
     variable_labels |-> Labels_to_owned(variable_labels)]

Opts_new_with_label(name, help, variable_labels) ==
    [namespace |-> EmptyStr,
     subsystem |-> EmptyStr,
     name |-> name,
     help |-> help,
     const_labels |-> HashMap_new,
     variable_labels |-> Labels_to_owned(variable_labels)]

Opts_new(name, help) == Opts_new_with_label(name, help, <<>>)

Opts_from_pair(options) == Opts_new(options[1], options[2])

Opts_from_triple(options) ==
    Opts_new_with_label(options[1], options[2], options[3])

Opts_namespace(self, namesapce) == [self EXCEPT !.namespace = namesapce]

Opts_subsystem(self, subsystem) == [self EXCEPT !.subsystem = subsystem]

Opts_const_labels(self, const_labels) ==
    [self EXCEPT !.const_labels = const_labels]

Opts_const_label(self, name, value) ==
    [self EXCEPT !.const_labels = HashMap_insert(self.const_labels, name, value)]

Opts_variable_labels(self, variable_labels) ==
    [self EXCEPT !.variable_labels = Labels_to_owned(variable_labels)]

Opts_fq_name_Swapped(self) ==
    build_fq_name(self.subsystem, self.namespace, self.name)

Opts_fq_name(self) ==
    build_fq_name(self.namespace, self.subsystem, self.name)

\* AsRef<[String]>::as_ref followed by to_vec: the names as a Vec<String>
to_vec(owned) == [i \in 1..Len(owned) |-> owned[i]]

Range(f) == {f[x] : x \in DOMAIN f}

\* Desc::new, of desc.rs: the check of label names against each other
Desc_new(fq_name, help, variable_labels, const_labels) ==
    IF (DOMAIN const_labels) \cap Range(variable_labels) # {}
    THEN [tag |-> "Err", fq_name |-> EmptyStr, help |-> EmptyStr,
          variable_labels |-> <<>>, const_labels |-> HashMap_new]
    ELSE [tag |-> "Ok", fq_name |-> fq_name, help |-> help,
          variable_labels |-> variable_labels, const_labels |-> const_labels]

Opts_describe_NoVariableLabels(self) ==
    Desc_new(Opts_fq_name(self), self.help, <<>>, self.const_labels)

Opts_describe(self) ==
    Desc_new(Opts_fq_name(self), self.help, to_vec(self.variable_labels),
             self.const_labels)

---------------------------------------------------------------------------
(* The registry: what registry.rs keeps of the collectors handed to it *)

\* A collector stands for its one descriptor: the fully-qualified name, the
\* help text, and the value of its constant label.
Collector(name, help, value) == [name |-> name, help |-> help, value |-> value]

NoCollector == Collector(EmptyStr, EmptyStr, EmptyStr)

RegOk == [tag |-> "Ok", err |-> "none"]

RegErr(e) == [tag |-> "Err", err |-> e]

\* two descriptors are the same one when name and constant-label values agree
SameDesc(c, d) == c.name = d.name /\ c.value = d.value

\* Registry::try_register: a descriptor already held is refused, and so is a
\* descriptor sharing a name with one of another help text
Registry_try_register(reg, c) ==
    IF \E d \in reg : SameDesc(c, d)
    THEN [res |-> RegErr("AlreadyReg"), reg |-> reg]
    ELSE IF \E d \in reg : d.name = c.name /\ d.help # c.help
    THEN [res |-> RegErr("Conflict"), reg |-> reg]
    ELSE [res |-> RegOk, reg |-> reg \cup {c}]

\* Registry::try_unregister: a collector the registry does not hold is an error
Registry_try_unregister(reg, c) ==
    IF c \notin reg
    THEN [res |-> RegErr("NotFound"), reg |-> reg]
    ELSE [res |-> RegOk, reg |-> reg \ {c}]

\* ::try_register and ::try_unregister, on the process-wide registry
default_try_register(reg, c) == Registry_try_register(reg, c)

default_try_unregister(reg, c) == Registry_try_unregister(reg, c)

---------------------------------------------------------------------------
(* trait Collector: the registration methods *)

Ok(v) == [tag |-> "Ok", val |-> v, err |-> "none"]

Clone(self) == self

\* Result::map(|_| self): Ok carries self, an Err stays as it is
MapToSelf(res, self) ==
    IF res.tag = "Ok" THEN Ok(self)
    ELSE [tag |-> "Err", val |-> NoCollector, err |-> res.err]

\* Result::unwrap: the value of an Ok, a panic on an Err
Unwrap(res) ==
    IF res.tag = "Ok" THEN [tag |-> "Return", val |-> res.val, err |-> "none"]
    ELSE [tag |-> "Panic", val |-> NoCollector, err |-> res.err]

Call(fn, arg) == [fn |-> fn, arg |-> arg]

\* Each method yields its result, the registry as the method leaves it, and
\* the calls it made on the registry.

Collector_try_register_Swallow(self, reg) ==
    LET r == Registry_try_register(reg, Clone(self))
    IN  [res |-> Ok(self), reg |-> r.reg,
         calls |-> <<Call("Registry::try_register", Clone(self))>>]

Collector_try_register(self, reg) ==
    LET r == Registry_try_register(reg, Clone(self))
    IN  [res |-> MapToSelf(r.res, self), reg |-> r.reg,
         calls |-> <<Call("Registry::try_register", Clone(self))>>]

Collector_register(self, reg) ==
    LET r == Registry_try_register(reg, Clone(self))
    IN  [res |-> Unwrap(MapToSelf(r.res, self)), reg |-> r.reg,
         calls |-> <<Call("Registry::try_register", Clone(self))>>]

Collector_try_register_default(self, reg) ==
    LET r == default_try_register(reg, Clone(self))
    IN  [res |-> MapToSelf(r.res, self), reg |-> r.reg,
         calls |-> <<Call("::try_register", Clone(self))>>]

Collector_register_default(self, reg) ==
    LET r == default_try_register(reg, Clone(self))
    IN  [res |-> Unwrap(MapToSelf(r.res, self)), reg |-> r.reg,
         calls |-> <<Call("::try_register", Clone(self))>>]

Collector_try_unregister_Registers(self, reg) ==
    LET r == Registry_try_register(reg, Clone(self))
    IN  [res |-> MapToSelf(r.res, self), reg |-> r.reg,
         calls |-> <<Call("Registry::try_register", Clone(self))>>]

Collector_try_unregister(self, reg) ==
    LET r == Registry_try_unregister(reg, Clone(self))
    IN  [res |-> MapToSelf(r.res, self), reg |-> r.reg,
         calls |-> <<Call("Registry::try_unregister", Clone(self))>>]

Collector_unregister_NoUnwrap(self, reg) ==
    LET r == Registry_try_unregister(reg, Clone(self))
    IN  [res |-> [tag |-> "Return", val |-> self, err |-> "none"], reg |-> r.reg,
         calls |-> <<Call("Registry::try_unregister", Clone(self))>>]

Collector_unregister(self, reg) ==
    LET r == Registry_try_unregister(reg, Clone(self))
    IN  [res |-> Unwrap(MapToSelf(r.res, self)), reg |-> r.reg,
         calls |-> <<Call("Registry::try_unregister", Clone(self))>>]

Collector_try_unregister_default(self, reg) ==
    LET r == default_try_unregister(reg, Clone(self))
    IN  [res |-> MapToSelf(r.res, self), reg |-> r.reg,
         calls |-> <<Call("::try_unregister", Clone(self))>>]

Collector_unregister_default(self, reg) ==
    LET r == default_try_unregister(reg, Clone(self))
    IN  [res |-> Unwrap(MapToSelf(r.res, self)), reg |-> r.reg,
         calls |-> <<Call("::try_unregister", Clone(self))>>]

---------------------------------------------------------------------------
(* The values a variable holds while the part of the program it belongs to *)
(* is not running                                                          *)

FqIn0 == [namespace |-> EmptyStr, subsystem |-> EmptyStr, name |-> EmptyStr]

FqOut0 == [done |-> FALSE, s |-> EmptyStr]

CmpIn0 ==
    [lhs |-> new_label_pair(EmptyStr, EmptyStr),
     rhs |-> new_label_pair(EmptyStr, EmptyStr)]

CmpOut0 == [op |-> "none", ord |-> "None", opt |-> None]

NoOpts ==
    [namespace |-> EmptyStr, subsystem |-> EmptyStr, name |-> EmptyStr,
     help |-> EmptyStr, const_labels |-> HashMap_new, variable_labels |-> <<>>]

NoDesc ==
    [tag |-> "None", fq_name |-> EmptyStr, help |-> EmptyStr,
     variable_labels |-> <<>>, const_labels |-> HashMap_new]

Hist0 ==
    [namespace |-> EmptyStr, subsystem |-> EmptyStr, name |-> EmptyStr,
     help |-> EmptyStr, labels |-> <<>>]

OptsOp(op, pre, a1, a2, labels, map, ret, desc) ==
    [op |-> op, pre |-> pre, a1 |-> a1, a2 |-> a2, labels |-> labels,
     map |-> map, ret |-> ret, desc |-> desc]

Last0 ==
    OptsOp("init", NoOpts, EmptyStr, EmptyStr, <<>>, HashMap_new, EmptyStr, NoDesc)

RegOp(op, c, out) ==
    [op |-> op, c |-> c,
     pre |-> [registry |-> registry, default_registry |-> default_registry],
     res |-> out.res, calls |-> out.calls]

RLast0 ==
    [op |-> "init", c |-> NoCollector,
     pre |-> [registry |-> {}, default_registry |-> {}],
     res |-> [tag |-> "None", val |-> NoCollector, err |-> "none"],
     calls |-> <<>>]

FqIdle == fq_in = FqIn0 /\ fq_out = FqOut0

CmpIdle == cmp_in = CmpIn0 /\ cmp_out = CmpOut0

OptsIdle ==
    opts = NoOpts /\ L = 0 /\ hist = Hist0 /\ fqlog = <<>> /\ last = Last0

RegIdle ==
    registry = {} /\ default_registry = {} /\ rlast = RLast0 /\ rprev = RLast0

fqVars == <<fq_in, fq_out>>

cmpVars == <<cmp_in, cmp_out>>

optsVars == <<opts, L, hist, fqlog, last>>

regVars == <<registry, default_registry, rlast, rprev>>

---------------------------------------------------------------------------
(* build_fq_name on every triple of strings up to MaxLen *)

FqStrs == Strs({Space, LetterA}, MaxLen)

InitFq ==
    /\ fq_in \in [namespace : FqStrs, subsystem : FqStrs, name : FqStrs]
    /\ fq_out = FqOut0
    /\ CmpIdle /\ OptsIdle /\ RegIdle

BuildFqName ==
    /\ ~fq_out.done
    /\ fq_out' = [done |-> TRUE,
                  s |-> build_fq_name(fq_in.namespace, fq_in.subsystem, fq_in.name)]
    /\ UNCHANGED <<fq_in, cmpVars, optsVars, regVars>>

NextFq == BuildFqName

SpecFq == InitFq /\ [][NextFq]_vars

---------------------------------------------------------------------------
(* cmp and partial_cmp on every two label pairs with names up to MaxLen *)

PairNames == Strs({Digit0, Digit1, LetterK}, MaxLen)

PairValues == {<<Digit0>>, <<Digit1>>}

LabelPairs == {new_label_pair(n, v) : n \in PairNames, v \in PairValues}

InitCmp ==
    /\ cmp_in \in [lhs : LabelPairs, rhs : LabelPairs]
    /\ cmp_out = CmpOut0
    /\ FqIdle /\ OptsIdle /\ RegIdle

Cmp ==
    /\ cmp_out.op = "none"
    /\ cmp_out' = [op |-> "cmp", ord |-> LabelPair_cmp(cmp_in.lhs, cmp_in.rhs),
                   opt |-> None]
    /\ UNCHANGED <<cmp_in, fqVars, optsVars, regVars>>

PartialCmp ==
    /\ cmp_out.op = "none"
    /\ cmp_out' = [op |-> "partial_cmp", ord |-> "None",
                   opt |-> LabelPair_partial_cmp(cmp_in.lhs, cmp_in.rhs)]
    /\ UNCHANGED <<cmp_in, fqVars, optsVars, regVars>>

NextCmp == Cmp \/ PartialCmp

SpecCmp == InitCmp /\ [][NextCmp]_vars

---------------------------------------------------------------------------
(* A builder chain on an Opts record: a constructor, then builder          *)
(* operations, fq_name() and describe() in any order                       *)

NamespaceArgs == {EmptyStr, <<LetterA>>}

SubsystemArgs == {EmptyStr, <<LetterB>>}

NameArgs == {EmptyStr, <<LetterC>>}

HelpArgs == {<<LetterK>>}

LabelNames == {<<LetterA>>, <<LetterB>>}

LabelValues == {<<Digit0>>, <<Digit1>>}

\* the label sets of the array type [T; n]
LabelSets(n) == [1..n -> {Item(s) : s \in LabelNames}]

ConstLabelMaps == UNION {[keys -> LabelValues] : keys \in SUBSET LabelNames}

Init ==
    /\ OptsIdle
    /\ FqIdle /\ CmpIdle /\ RegIdle

Started == last.op # "init"

Construct(op, o, name, help, labels) ==
    /\ ~Started
    /\ opts' = o
    /\ L' = Len(labels)
    /\ hist' = [namespace |-> EmptyStr, subsystem |-> EmptyStr, name |-> name,
                help |-> help, labels |-> labels]
    /\ fqlog' = <<>>
    /\ last' = OptsOp(op, NoOpts, name, help, labels, HashMap_new, EmptyStr, NoDesc)
    /\ UNCHANGED <<fqVars, cmpVars, regVars>>

New ==
    \E name \in NameArgs, help \in HelpArgs :
        Construct("new", Opts_new(name, help), name, help, <<>>)

NewWithLabel ==
    \E name \in NameArgs, help \in HelpArgs, n \in Cardinalities :
        \E labels \in LabelSets(n) :
            Construct("new_with_label", Opts_new_with_label(name, help, labels),
                      name, help, labels)

FromPair ==
    \E name \in NameArgs, help \in HelpArgs :
        Construct("from_pair", Opts_from_pair(<<name, help>>), name, help, <<>>)

FromTriple ==
    \E name \in NameArgs, help \in HelpArgs, n \in Cardinalities :
        \E labels \in LabelSets(n) :
            Construct("from_triple", Opts_from_triple(<<name, help, labels>>),
                      name, help, labels)

Build(op, o, h, a1, a2, labels, map) ==
    /\ Started
    /\ opts' = o
    /\ hist' = h
    /\ fqlog' = <<>>
    /\ last' = OptsOp(op, opts, a1, a2, labels, map, EmptyStr, NoDesc)
    /\ UNCHANGED <<L, fqVars, cmpVars, regVars>>

Namespace ==
    \E s \in NamespaceArgs :
        Build("namespace", Opts_namespace(opts, s),
              [hist EXCEPT !.namespace = s], s, EmptyStr, <<>>, HashMap_new)

Subsystem ==
    \E s \in SubsystemArgs :
        Build("subsystem", Opts_subsystem(opts, s),
              [hist EXCEPT !.subsystem = s], s, EmptyStr, <<>>, HashMap_new)

ConstLabels ==
    \E map \in ConstLabelMaps :
        Build("const_labels", Opts_const_labels(opts, map), hist,
              EmptyStr, EmptyStr, <<>>, map)

ConstLabel ==
    \E name \in LabelNames, value \in LabelValues :
        Build("const_label", Opts_const_label(opts, name, value), hist,
              name, value, <<>>, HashMap_new)

VariableLabels ==
    \E labels \in LabelSets(L) :
        Build("variable_labels", Opts_variable_labels(opts, labels),
              [hist EXCEPT !.labels = labels], EmptyStr, EmptyStr, labels,
              HashMap_new)

\* fq_name and describe take &self: the record is read, never written
FqName ==
    /\ Started
    /\ Len(fqlog) < MaxFqCalls
    /\ fqlog' = Append(fqlog, Opts_fq_name(opts))
    /\ last' = OptsOp("fq_name", opts, EmptyStr, EmptyStr, <<>>, HashMap_new,
                      Opts_fq_name(opts), NoDesc)
    /\ UNCHANGED <<opts, L, hist, fqVars, cmpVars, regVars>>

Describe ==
    /\ Started
    /\ last.op # "describe"
    /\ last' = OptsOp("describe", opts, EmptyStr, EmptyStr, <<>>, HashMap_new,
                      EmptyStr, Opts_describe(opts))
    /\ UNCHANGED <<opts, L, hist, fqlog, fqVars, cmpVars, regVars>>

Next ==
    \/ New
    \/ NewWithLabel
    \/ FromPair
    \/ FromTriple
    \/ Namespace
    \/ Subsystem
    \/ ConstLabels
    \/ ConstLabel
    \/ VariableLabels
    \/ FqName
    \/ Describe

Spec == Init /\ [][Next]_vars

---------------------------------------------------------------------------
(* Collectors registering with and unregistering from two registries       *)

\* two share a help text and differ in the constant label, the third
\* carries another help text under the same name
Collectors ==
    {Collector(<<LetterC>>, <<LetterK>>, <<Digit0>>),
     Collector(<<LetterC>>, <<LetterK>>, <<Digit1>>),
     Collector(<<LetterC>>, <<LetterA>>, <<Digit0>>)}

InitReg ==
    /\ RegIdle
    /\ FqIdle /\ CmpIdle /\ OptsIdle

OnRegistry(op, c, out) ==
    /\ registry' = out.reg
    /\ rlast' = RegOp(op, c, out)
    /\ rprev' = rlast
    /\ UNCHANGED <<default_registry, fqVars, cmpVars, optsVars>>

OnDefault(op, c, out) ==
    /\ default_registry' = out.reg
    /\ rlast' = RegOp(op, c, out)
    /\ rprev' = rlast
    /\ UNCHANGED <<registry, fqVars, cmpVars, optsVars>>

TryRegister ==
    \E c \in Collectors :
        OnRegistry("try_register", c, Collector_try_register(c, registry))

Register ==
    \E c \in Collectors :
        OnRegistry("register", c, Collector_register(c, registry))

TryRegisterDefault ==
    \E c \in Collectors :
        OnDefault("try_register_default", c,
                  Collector_try_register_default(c, default_registry))

RegisterDefault ==
    \E c \in Collectors :
        OnDefault("register_default", c,
                  Collector_register_default(c, default_registry))

TryUnregister ==
    \E c \in Collectors :
        OnRegistry("try_unregister", c, Collector_try_unregister(c, registry))

Unregister ==
    \E c \in Collectors :
        OnRegistry("unregister", c, Collector_unregister(c, registry))

TryUnregisterDefault ==
    \E c \in Collectors :
        OnDefault("try_unregister_default", c,
                  Collector_try_unregister_default(c, default_registry))

UnregisterDefault ==
    \E c \in Collectors :
        OnDefault("unregister_default", c,
                  Collector_unregister_default(c, default_registry))

NextReg ==
    \/ TryRegister
    \/ Register
    \/ TryRegisterDefault
    \/ RegisterDefault
    \/ TryUnregister
    \/ Unregister
    \/ TryUnregisterDefault
    \/ UnregisterDefault

SpecReg == InitReg /\ [][NextReg]_vars

---------------------------------------------------------------------------
(* Claims *)

NonEmpty(s) == Len(s) > 0

RECURSIVE JoinWithUnderscore(_)
JoinWithUnderscore(parts) ==
    IF Len(parts) = 0 THEN EmptyStr
    ELSE IF Len(parts) = 1 THEN parts[1]
    ELSE parts[1] \o <<Underscore>> \o JoinWithUnderscore(Tail(parts))

\* C1: build_fq_name returns the empty string when name is empty, whatever
\* namespace and subsystem are; otherwise it returns the non-empty ones among
\* namespace, subsystem and name, in that order, joined by "_".  Empty means
\* of length zero: a namespace of one space is not empty.
C1_FqNameJoinsNonEmpty ==
    fq_out.done =>
        fq_out.s =
            IF Len(fq_in.name) = 0 THEN EmptyStr
            ELSE JoinWithUnderscore(
                     SelectSeq(<<fq_in.namespace, fq_in.subsystem, fq_in.name>>,
                               NonEmpty))

C1_Witness ==
    /\ fq_out.done
    /\ fq_in.namespace = <<Space>>
    /\ fq_in.subsystem = EmptyStr
    /\ fq_in.name = <<LetterA>>
    /\ fq_out.s = <<Space, Underscore, LetterA>>

\* a is before b in the byte-lexicographic order: at the first place where
\* they differ a has the smaller byte, or a is a proper prefix of b
LexLess(a, b) ==
    \E i \in 1..Len(b) :
        /\ i <= Len(a) + 1
        /\ \A j \in 1..(i - 1) : a[j] = b[j]
        /\ \/ i = Len(a) + 1
           \/ a[i] < b[i]

LexOrder(a, b) ==
    IF a = b THEN "Equal" ELSE IF LexLess(a, b) THEN "Less" ELSE "Greater"

\* C2: cmp(p, q) is the byte-lexicographic comparison of p.name with q.name,
\* whatever the two values are; it is Equal exactly when the names are equal;
\* partial_cmp(p, q) is Some of it.
C2_CmpByNameOnly ==
    LET expected == LexOrder(cmp_in.lhs.name, cmp_in.rhs.name)
    IN  /\ cmp_out.op = "cmp" =>
            /\ cmp_out.ord = expected
            /\ cmp_out.ord = "Equal" <=> cmp_in.lhs.name = cmp_in.rhs.name
        /\ cmp_out.op = "partial_cmp" =>
            /\ cmp_out.opt.some
            /\ cmp_out.opt.val = expected

C2_Witness ==
    /\ cmp_out.op = "cmp"
    /\ cmp_in.lhs.name = <<LetterK, Digit1>>
    /\ cmp_in.rhs.name = <<LetterK, Digit1>>
    /\ cmp_in.lhs.value # cmp_in.rhs.value
    /\ cmp_out.ord = "Equal"

\* C3: try_register makes one registration call on the registry, with a copy
\* of the collector; when the call succeeds the result is Ok carrying the
\* collector, when it fails the result is the registry's error; the registry
\* is left as that one call left it and the default registry is not touched.
C3_TryRegisterRelays ==
    rlast.op = "try_register" =>
        LET r == Registry_try_register(rlast.pre.registry, rlast.c)
        IN  /\ rlast.calls = <<Call("Registry::try_register", rlast.c)>>
            /\ r.res.tag = "Ok" =>
                   rlast.res = [tag |-> "Ok", val |-> rlast.c, err |-> "none"]
            /\ r.res.tag = "Err" =>
                   rlast.res.tag = "Err" /\ rlast.res.err = r.res.err
            /\ registry = r.reg
            /\ default_registry = rlast.pre.default_registry

C3_Witness ==
    /\ rlast.op = "try_register"
    /\ rlast.c \in rlast.pre.registry
    /\ rlast.res.tag = "Err"
    /\ rlast.res.err = "AlreadyReg"
    /\ registry = rlast.pre.registry

\* what a fail-fast method did, against what its try_ counterpart does from
\* the same registry: the same calls, a panic exactly on the counterpart's
\* Err, otherwise the collector returned and the same registry afterwards
FailFastAgrees(try, regAfter) ==
    /\ rlast.calls = try.calls
    /\ rlast.res.tag = "Panic" <=> try.res.tag = "Err"
    /\ rlast.res.tag = "Panic" => rlast.res.err = try.res.err
    /\ try.res.tag = "Ok" => rlast.res.tag = "Return" /\ rlast.res.val = rlast.c
    /\ regAfter = try.reg

\* C4: register, unregister, register_default and unregister_default make the
\* call their try_ counterpart makes, panic exactly when the counterpart would
\* return an error, and otherwise return the collector with the same effect
\* on the registry; a collector the registry does not hold is an Err from
\* try_unregister and a panic from unregister.
C4_FailFastMirrorsTry ==
    /\ rlast.op = "register" =>
        /\ FailFastAgrees(Collector_try_register(rlast.c, rlast.pre.registry),
                          registry)
        /\ default_registry = rlast.pre.default_registry
    /\ rlast.op = "unregister" =>
        /\ FailFastAgrees(Collector_try_unregister(rlast.c, rlast.pre.registry),
                          registry)
        /\ default_registry = rlast.pre.default_registry
        /\ rlast.c \notin rlast.pre.registry => rlast.res.tag = "Panic"
    /\ rlast.op = "register_default" =>
        /\ FailFastAgrees(
               Collector_try_register_default(rlast.c, rlast.pre.default_registry),
               default_registry)
        /\ registry = rlast.pre.registry
    /\ rlast.op = "unregister_default" =>
        /\ FailFastAgrees(
               Collector_try_unregister_default(rlast.c,
                                                rlast.pre.default_registry),
               default_registry)
        /\ registry = rlast.pre.registry
    /\ rlast.op = "try_unregister" /\ rlast.c \notin rlast.pre.registry =>
        rlast.res.tag = "Err"

C4_Witness ==
    /\ rlast.op = "unregister"
    /\ rlast.pre.registry # {}
    /\ rlast.c \notin rlast.pre.registry
    /\ rlast.res.tag = "Panic"
    /\ rlast.res.err = "NotFound"

\* C5: a try_register that succeeds, followed by try_unregister of the same
\* collector on the same registry: the second succeeds and the registry holds
\* the descriptors it held before the registration.
C5_RegisterThenUnregister ==
    (/\ rprev.op = "try_register"
     /\ rprev.res.tag = "Ok"
     /\ rlast.op = "try_unregister"
     /\ rlast.c = rprev.c)
    => /\ rlast.res = [tag |-> "Ok", val |-> rlast.c, err |-> "none"]
       /\ registry = rprev.pre.registry

C5_Witness ==
    /\ rprev.op = "try_register"
    /\ rprev.res.tag = "Ok"
    /\ rprev.pre.registry # {}
    /\ rlast.op = "try_unregister"
    /\ rlast.c = rprev.c
    /\ rlast.res.tag = "Ok"
    /\ registry = rprev.pre.registry

\* C6: fq_name() returns build_fq_name of the namespace and subsystem most
\* recently set (empty if never set) and the name given at construction,
\* changes no field of the record, and returns the same string on every call
\* made with no builder operation in between.
C6_FqNameReflectsFields ==
    /\ last.op = "fq_name" =>
        /\ last.ret = build_fq_name(hist.namespace, hist.subsystem, hist.name)
        /\ opts = last.pre
        /\ fqlog # <<>>
        /\ fqlog[Len(fqlog)] = last.ret
    /\ \A i, j \in 1..Len(fqlog) : fqlog[i] = fqlog[j]

C6_Witness ==
    /\ last.op = "fq_name"
    /\ Len(fqlog) = 2
    /\ hist.namespace = <<LetterA>>
    /\ hist.subsystem = <<LetterB>>
    /\ last.ret = <<LetterA, Underscore, LetterB, Underscore, LetterC>>

\* the names of a label set, as strings, in the order supplied
NamesOf(labels) == [i \in 1..Len(labels) |-> labels[i].str]

\* C7: for every cardinality N in 0..4 the owned materialization of a label
\* set has N entries, the i-th equal as a string to the i-th supplied name;
\* so variable_labels always holds N names, those of the label set most
\* recently supplied, in order.
C7_OwnedLabelsKeepOrder ==
    Started =>
        /\ L \in 0..4
        /\ Len(hist.labels) = L
        /\ Len(opts.variable_labels) = L
        /\ \A i \in 1..L : opts.variable_labels[i] = hist.labels[i].str
        /\ last.op \in {"new_with_label", "from_triple", "variable_labels"} =>
               hist.labels = last.labels

C7_Witness ==
    /\ last.op = "variable_labels"
    /\ L = 4
    /\ last.pre.variable_labels # opts.variable_labels
    /\ opts.variable_labels = <<<<LetterA>>, <<LetterA>>, <<LetterB>>, <<LetterA>>>>

\* C8: new(name, help) yields a record with that name and help, empty
\* namespace and subsystem, no constant label and no variable label, whose
\* fq_name() is name; new_with_label(name, help, labels) yields the same
\* except that variable_labels holds the names of labels.
C8_Constructors ==
    /\ last.op \in {"new", "new_with_label"} =>
        /\ opts.name = last.a1
        /\ opts.help = last.a2
        /\ opts.namespace = EmptyStr
        /\ opts.subsystem = EmptyStr
        /\ DOMAIN opts.const_labels = {}
        /\ Opts_fq_name(opts) = last.a1
    /\ last.op = "new" => Len(opts.variable_labels) = 0
    /\ last.op = "new_with_label" => opts.variable_labels = NamesOf(last.labels)

C8_Witness ==
    /\ last.op = "new"
    /\ last.a1 = <<LetterC>>
    /\ opts.name = <<LetterC>>
    /\ opts.help = <<LetterK>>

Collides(o) == (DOMAIN o.const_labels) \cap Range(o.variable_labels) # {}

\* C9, as claimed: in every record reachable through the constructors and
\* the builder operations no constant-label name is a variable-label name.
C9_NeverCollides == Started => ~Collides(opts)

\* C9, as amended: the constructors and builder operations accept a constant
\* label named like a variable label; it is describe() that refuses such a
\* record, so that no constant-label name is a variable-label name in any
\* record describe() returns Ok for.
C9_DescribedNeverCollides ==
    last.op = "describe" =>
        /\ last.desc.tag = "Ok" => ~Collides(opts)
        /\ opts = last.pre

C9_Witness ==
    /\ last.op = "describe"
    /\ last.desc.tag = "Ok"
    /\ DOMAIN opts.const_labels = {<<LetterA>>}
    /\ opts.variable_labels = <<<<LetterB>>>>

\* every field of the record but the one named keeps the value it had
SameBut(field) ==
    /\ field # "namespace" => opts.namespace = last.pre.namespace
    /\ field # "subsystem" => opts.subsystem = last.pre.subsystem
    /\ opts.name = last.pre.name
    /\ opts.help = last.pre.help
    /\ field # "const_labels" => opts.const_labels = last.pre.const_labels
    /\ field # "variable_labels" =>
           opts.variable_labels = last.pre.variable_labels

\* C10: namespace(s) and subsystem(s) set that field only; const_labels(map)
\* makes the mapping map; const_label(k, v) maps k to v and leaves every
\* other entry as it was; variable_labels(set) replaces variable_labels only;
\* name, help and every field not named keep their values.
C10_BuildersChangeOnlyTheirField ==
    /\ last.op = "namespace" =>
           opts.namespace = last.a1 /\ SameBut("namespace")
    /\ last.op = "subsystem" =>
           opts.subsystem = last.a1 /\ SameBut("subsystem")
    /\ last.op = "const_labels" =>
           opts.const_labels = last.map /\ SameBut("const_labels")
    /\ last.op = "const_label" =>
        /\ DOMAIN opts.const_labels = (DOMAIN last.pre.const_labels) \cup {last.a1}
        /\ opts.const_labels[last.a1] = last.a2
        /\ \A k \in (DOMAIN last.pre.const_labels) \ {last.a1} :
               opts.const_labels[k] = last.pre.const_labels[k]
        /\ SameBut("const_labels")
    /\ last.op = "variable_labels" =>
           opts.variable_labels = NamesOf(last.labels) /\ SameBut("variable_labels")

C10_Witness ==
    /\ last.op = "const_label"
    /\ DOMAIN last.pre.const_labels = LabelNames
    /\ last.a1 = <<LetterA>>
    /\ last.pre.const_labels[<<LetterA>>] = <<Digit0>>
    /\ last.a2 = <<Digit1>>
    /\ opts.const_labels[<<LetterA>>] = <<Digit1>>
    /\ opts.const_labels[<<LetterB>>] = last.pre.const_labels[<<LetterB>>]

===========================================================================
